---- MODULE Spec2Model ----
(***************************************************************************)
(* A model of bazelisk.py: version selection, latest-version resolution   *)
(* with the one-hour latest_bazel cache, artifact naming, the buffered    *)
(* download into ~/.bazelisk/bin and the launch of the binary.            *)
(*                                                                         *)
(* Strings are sequences of one-character strings, so that strip(),       *)
(* split('/') and format() are computed and not assumed.  An optional     *)
(* value is a sequence of length 0 (None) or 1.                            *)
(***************************************************************************)
EXTENDS Integers, Sequences, FiniteSets, TLC

VARIABLES
    clock,    \* time.time(), in seconds
    host,     \* what platform.machine() and platform.system() report
    dirs,     \* the directories os.makedirs has created
    cache,    \* ~/.bazelisk/latest_bazel: None or <<[content, mtime, readable]>>
    bin,      \* the files of ~/.bazelisk/bin: path -> [content, exec]
    proc,     \* per invocation of main: its position (pc), its locals, the
              \* requests it has sent (heads, gets, url), how it ended (err, at:
              \* the exception and where it was raised; launched, returned,
              \* status) and, until they go out of scope, what the selector
              \* read (sel) and the return statement it took (via); where the
              \* walk is taken call by call, the directory of the current call
              \* of find_workspace_root (root) and those of the calls so far
              \* (visited)
    runs      \* how many times main has been started

vars == <<clock, host, dirs, cache, bin, proc, runs>>

----------------------------------------------------------------------------
(* Bounds of the model *)

\* the clock shows 0, one second less than an hour, or 1..MaxHours whole hours
MaxHours == 1
\* directories are 0 (the filesystem root) .. MaxDepth, each the parent of the next
MaxDepth == 2
\* the interpreter allows RecursionLimit nested calls of find_workspace_root
\* (sys.getrecursionlimit(), less the frames below the first call)
RecursionLimit == 3
\* main is started at most MaxRuns times
MaxRuns == 2
\* the artifact the server holds is one full block and ExtraBytes more
ExtraBytes == 10
\* the versions the locator is applied to alone have up to MaxVersionLen characters
MaxVersionLen == 2

----------------------------------------------------------------------------
(* Program constants *)

ONE_HOUR == 1 * 60 * 60

BlockSize == 1024

None == <<>>

Some(x) == <<x>>

LATEST == <<"l", "a", "t", "e", "s", "t">>

V7 == <<"7">>

V8 == <<"8">>

Whitespace == {" ", "\n", "\t"}

----------------------------------------------------------------------------
(* Pure helpers *)

\* an abs() that leaves the sign
AbsKeepsSign(x) == x

Abs(x) == IF x < 0 THEN -x ELSE x

Min(a, b) == IF a < b THEN a ELSE b

RECURSIVE LStrip(_)
LStrip(s) ==
    IF s # <<>> /\ Head(s) \in Whitespace THEN LStrip(Tail(s)) ELSE s

RECURSIVE RStrip(_)
RStrip(s) ==
    IF s # <<>> /\ s[Len(s)] \in Whitespace
    THEN RStrip(SubSeq(s, 1, Len(s) - 1))
    ELSE s

\* str.strip()
Strip(s) == RStrip(LStrip(s))

\* s.split('/')[-1]
RECURSIVE LastSegment(_)
LastSegment(s) ==
    IF s = <<>> \/ s[Len(s)] = "/"
    THEN <<>>
    ELSE Append(LastSegment(SubSeq(s, 1, Len(s) - 1)), s[Len(s)])

\* str.lower(), on the letters the platform names use
LowerChar(c) ==
    CASE c = "L" -> "l"
      [] c = "D" -> "d"
      [] c = "W" -> "w"
      [] c = "S" -> "s"
      [] c = "O" -> "o"
      [] OTHER -> c

\* a lower() that leaves every letter as it is
LowerKeepsCase(s) == s

Lower(s) == [i \in 1..Len(s) |-> LowerChar(s[i])]

\* os.path.join(a, b) for a relative b
PathJoin(a, b) == a \o <<"/">> \o b

\* os.path.dirname on the chain of directories: the root is its own parent
Dirname(d) == IF d = 0 THEN 0 ELSE d - 1

Return(v) == [err |-> "", value |-> v]

Raise(e) == [err |-> e, value |-> <<>>]

----------------------------------------------------------------------------
(* The inputs the environment supplies *)

\* the values the clock can show
Times == {0, ONE_HOUR - 1} \cup {k * ONE_HOUR : k \in 1..MaxHours}

Dirs == 0..MaxDepth

\* os.environ.get('USE_BAZEL_VERSION'): unset, or a string
Overrides == {None, Some(V7), Some(LATEST), Some(<<>>)}

PinAbsent == [state |-> "absent", content |-> <<>>]

PinUnreadable == [state |-> "unreadable", content |-> <<>>]

PinFile(c) == [state |-> "file", content |-> c]

\* the .bazelversion of a directory: absent, unreadable, or a text file
PinStates == {PinAbsent, PinUnreadable, PinFile(<<"7", "\n">>)}

\* a working directory, the directories holding a WORKSPACE file, and each
\* directory's .bazelversion (only a WORKSPACE directory at or above the
\* working directory is ever looked at: the others hold none)
WorkspacesIn(D) ==
    {w \in [cwd : D, markers : SUBSET D, pins : [D -> PinStates]] :
        /\ \A d \in w.markers : d <= w.cwd
        /\ \A d \in D \ w.markers : w.pins[d] = PinAbsent}

Workspaces == WorkspacesIn(Dirs)

\* the directories of the walk taken call by call: the deepest lies one
\* level deeper than the interpreter has frames for
WalkDirs == 0..RecursionLimit

WalkWorkspaces == WorkspacesIn(WalkDirs)

\* the workspaces a whole run is followed through: the working directory is
\* the deepest one, and a WORKSPACE file lies in it or nowhere
RunWorkspaces == {w \in Workspaces : w.cwd = MaxDepth /\ w.markers \subseteq {MaxDepth}}

\* sys.argv
Argvs == {<<"bazelisk">>, <<"bazelisk", "build", "//a">>}

X86_64 == <<"x", "8", "6", "_", "6", "4">>

ARM64 == <<"a", "r", "m", "6", "4">>

\* platform.machine() and platform.system() of the hosts considered
Hosts ==
    {[machine |-> X86_64, system |-> <<"L", "i", "n", "u", "x">>],
     [machine |-> ARM64, system |-> <<"L", "i", "n", "u", "x">>],
     [machine |-> X86_64, system |-> <<"S", "u", "n", "O", "S">>]}

\* the hosts the locator is applied to alone: those, and the two other
\* supported systems
LocateHosts ==
    Hosts \cup {[machine |-> X86_64, system |-> <<"D", "a", "r", "w", "i", "n">>],
                [machine |-> X86_64, system |-> <<"W", "i", "n", "d", "o", "w", "s">>]}

VersionChars == {"7", ".", "-"}

\* the versions the locator is applied to alone: the short strings of
\* digits, dots and dashes, and one that ends like a file name
LocateVersions ==
    UNION {[1..n -> VersionChars] : n \in 0..MaxVersionLen}
        \cup {<<"7", "-", "l", "i", "n", "u", "x">>}

\* where the HEAD of releases/latest can end after its redirects
LatestURLs ==
    {<<"t", "a", "g", "/">> \o V7, <<"t", "a", "g", "/">> \o V8}

BodySize == BlockSize + ExtraBytes

\* a GET's response: its Content-Length header (None when the server sends
\* none) and the number of body bytes the stream delivers before it ends
Responses ==
    {[length |-> None, body |-> BodySize],
     [length |-> Some(0), body |-> 0],
     [length |-> Some(BodySize), body |-> BodySize],
     [length |-> Some(BodySize), body |-> BlockSize]}

\* the response of a server that sends the whole artifact and its length
RaceResponses == {[length |-> Some(BodySize), body |-> BodySize]}

\* what wait() returns: an exit code, or minus the signal that ended the child
ReturnCodes == {0, 255, -9}

----------------------------------------------------------------------------
(* The functions of bazelisk.py *)

RECURSIVE find_workspace_root(_, _)
find_workspace_root(ws, root) ==
    IF root \in ws.markers
    THEN Some(root)
    ELSE LET new_root == Dirname(root)
         IN  IF new_root # root THEN find_workspace_root(ws, new_root) ELSE None

\* one call of find_workspace_root, up to the call it may end in: the value
\* it returns, or the directory the next call is made with
find_workspace_root_call(ws, root) ==
    IF root \in ws.markers
    THEN [returns |-> TRUE, value |-> Some(root)]
    ELSE LET new_root == Dirname(root)
         IN  IF new_root # root
             THEN [returns |-> FALSE, value |-> Some(new_root)]
             ELSE [returns |-> TRUE, value |-> None]

\* what open(...) and f.read() of the pin file do
ReadPin(pin) ==
    CASE pin.state = "absent" -> Raise("FileNotFoundError")
      [] pin.state = "unreadable" -> Raise("PermissionError")
      [] OTHER -> Return(pin.content)

\* a selector whose except clause catches every error of the read
SelectorCatchesAnyError(e) == TRUE

\* the errors the except clause of the selector catches
SelectorCatches(e) == e = "FileNotFoundError"

\* the selector's result, with the return statement that produced it
Selected(v, via) == [err |-> "", value |-> v, via |-> via]

\* a selector that looks at the pin file before the environment
decide_pin_file_first(environ, ws) ==
    LET workspace_root == find_workspace_root(ws, ws.cwd)
        r == IF workspace_root = None THEN Raise("FileNotFoundError")
             ELSE ReadPin(ws.pins[workspace_root[1]])
    IN  IF r.err = "" THEN Selected(Strip(r.value), "pin")
        ELSE IF environ # None THEN Selected(environ[1], "override")
        ELSE IF SelectorCatches(r.err) THEN Selected(LATEST, "fallback")
        ELSE [err |-> r.err, value |-> <<>>, via |-> "raise"]

\* the selector from the value of find_workspace_root() on (lines 41-46)
decide_with_root(ws, workspace_root) ==
    IF workspace_root = None
    THEN Selected(LATEST, "fallback")
    ELSE LET r == ReadPin(ws.pins[workspace_root[1]])
         IN  IF r.err = "" THEN Selected(Strip(r.value), "pin")
             ELSE IF SelectorCatches(r.err) THEN Selected(LATEST, "fallback")
             ELSE [err |-> r.err, value |-> <<>>, via |-> "raise"]

decide_which_bazel_version_to_use(environ, ws) ==
    IF environ # None
    THEN Selected(environ[1], "override")
    ELSE decide_with_root(ws, find_workspace_root(ws, ws.cwd))

\* the part of the HEAD's final URL that names the version
resolve_latest_version(url) == LastSegment(url)

\* a resolver that asks the cache and the network for every version
IsLatestLabelAlways(version) == TRUE

\* version == "latest"
IsLatestLabel(version) == version = LATEST

\* a staleness check without abs()
CacheIsFreshForwardOnly(now, mtime) == now - mtime < ONE_HOUR

\* abs(time.time() - os.path.getmtime(latest_cache)) < ONE_HOUR
CacheIsFresh(now, mtime) == Abs(now - mtime) < ONE_HOUR

\* a locator that checks no architecture
SupportedMachineAny(machine) == TRUE

SupportedMachine(machine) == machine = X86_64

SupportedSystem(operating_system) ==
    operating_system \in {<<"l", "i", "n", "u", "x">>,
                          <<"d", "a", "r", "w", "i", "n">>,
                          <<"w", "i", "n", "d", "o", "w", "s">>}

determine_bazel_filename(version, h) ==
    IF ~SupportedMachine(h.machine)
    THEN Raise("UnsupportedMachine")
    ELSE LET operating_system == Lower(h.system)
         IN  IF ~SupportedSystem(operating_system)
             THEN Raise("UnsupportedSystem")
             ELSE Return(<<"b", "a", "z", "e", "l", "-">> \o version \o <<"-">>
                         \o operating_system \o <<"-">> \o h.machine)

BazeliskDirectory == PathJoin(<<"~">>, <<".", "b", "a", "z", "e", "l", "i", "s", "k">>)

BazelDirectory == PathJoin(BazeliskDirectory, <<"b", "i", "n">>)

ReleasesHost ==
    <<"h", "t", "t", "p", "s", ":", "/", "/", "r", "e", "l", "e", "a", "s", "e", "s",
      ".", "b", "a", "z", "e", "l", ".", "b", "u", "i", "l", "d">>

\* "https://releases.bazel.build/{}/release/{}".format(version, bazel_filename)
DownloadUrl(version, bazel_filename) ==
    ReleasesHost \o <<"/">> \o version \o <<"/", "r", "e", "l", "e", "a", "s", "e", "/">>
        \o bazel_filename

\* os.path.join(directory, bazel_filename)
DestinationPath(directory, bazel_filename) == PathJoin(directory, bazel_filename)

\* the block u.read(1024) returns with `remaining` bytes still to come,
\* as <<offset, length>> of the body
NextBlock(total, remaining) == <<total, Min(BlockSize, remaining)>>

\* the number of bytes of a sequence of blocks
RECURSIVE Bytes(_)
Bytes(content) == IF content = <<>> THEN 0 ELSE content[1][2] + Bytes(Tail(content))

\* content without its first n bytes
RECURSIVE DropBytes(_, _)
DropBytes(content, n) ==
    IF n = 0 \/ content = <<>> THEN content
    ELSE IF content[1][2] <= n THEN DropBytes(Tail(content), n - content[1][2])
    ELSE <<<<content[1][1] + n, content[1][2] - n>>>> \o Tail(content)

\* a write that adds its data at the end of the file
OverlayAppends(old, data) == old \o data

\* what a file holding old holds after a descriptor opened at offset 0 has
\* written data: the data, and what the file held beyond their length
Overlay(old, data) == data \o DropBytes(old, Bytes(data))

\* the same for the text of the cache file
OverlayText(old, text) == text \o SubSeq(old, Len(text) + 1, Len(old))

\* a join that keeps the last block received and drops those before it
JoinBlocksLastOnly(data_blocks) ==
    LET kept == SelectSeq(data_blocks, LAMBDA b : b[2] > 0)
    IN  IF kept = <<>> THEN <<>> ELSE <<kept[Len(kept)]>>

\* b"".join(data_blocks): the blocks in order, the empty ones contributing nothing
JoinBlocks(data_blocks) == SelectSeq(data_blocks, LAMBDA b : b[2] > 0)

\* a launcher that forwards argv[0] too
CommandLineWholeArgv(bazel_path, argv) == <<bazel_path>> \o argv

\* [bazel_path] + argv[1:]
CommandLine(bazel_path, argv) == <<bazel_path>> \o Tail(argv)

\* the status sys.exit(n) leaves the process with
ExitStatus(n) == n % 256

\* a resolver whose except clause catches every error of the read
ResolverCatchesAnyError(e) == TRUE

\* the errors the except clause of the resolver catches
ResolverCatches(e) == e = "FileNotFoundError"

\* os.path.getmtime(latest_cache)
GetMtime(c) == IF c = None THEN Raise("FileNotFoundError") ELSE Return(c[1].mtime)

\* open(latest_cache, 'r') and f.read()
ReadCache(c) ==
    IF c = None THEN Raise("FileNotFoundError")
    ELSE IF ~c[1].readable THEN Raise("PermissionError")
    ELSE Return(c[1].content)

\* lines 64-69: the cached version, "miss" when the network is to be asked,
\* or the error that leaves the function
CheckLatestCache(now, c) ==
    LET m == GetMtime(c)
    IN  IF m.err # ""
        THEN IF ResolverCatches(m.err) THEN Return("miss") ELSE m
        ELSE IF CacheIsFresh(now, m.value)
             THEN LET r == ReadCache(c)
                  IN  IF r.err = "" THEN Return(Strip(r.value))
                      ELSE IF ResolverCatches(r.err) THEN Return("miss") ELSE r
             ELSE Return("miss")

\* a cache check that renews the modification time of the file it reads
AfterCacheReadTouched(c, now) ==
    IF c = None THEN c ELSE Some([c[1] EXCEPT !.mtime = now])

\* what lines 64-67 leave of the cache file: getmtime and read change nothing
AfterCacheRead(c, now) == c

\* a downloader that never looks for the file
NeedsDownloadAlways(files, destination_path) == TRUE

\* not os.path.exists(destination_path)
NeedsDownload(files, destination_path) == destination_path \notin DOMAIN files

\* (60*total)//fileTotalbytes raises ZeroDivisionError
ProgressRaises(total, fileTotalbytes) == fileTotalbytes = 0

\* the file open(destination_path, 'wb') leaves before anything is written
Truncated(files, path) ==
    [q \in DOMAIN files \cup {path} |->
        IF q = path
        THEN [content |-> <<>>, exec |-> IF path \in DOMAIN files THEN files[path].exec ELSE FALSE]
        ELSE files[q]]

\* a downloader that writes each block to the destination as it arrives
WhileStreamingToFile(files, path, data_blocks) ==
    [q \in DOMAIN files \cup {path} |->
        IF q = path THEN [content |-> data_blocks, exec |-> FALSE] ELSE files[q]]

\* what the destination holds while the body is being read: the blocks are
\* kept in memory, and the file system is left alone
WhileStreaming(files, path, data_blocks) == files

\* a resolver that sends the HEAD request again when it fails
AfterHeadFailureRetry(me) == me

\* what a failure of the HEAD request leads to: the exception leaves main
AfterHeadFailure(me) ==
    [me EXCEPT !.pc = "failed", !.at = me.pc, !.err = "URLError", !.status = Some(1),
               !.argv = <<>>, !.via = "", !.version = None]

----------------------------------------------------------------------------
(* The state machine *)

SeqProcs == {1}

Procs == {1, 2}

Fresh ==
    [pc |-> "idle", at |-> "", argv |-> <<>>, sel |-> None, via |-> "", version |-> None,
     latest_version |-> None, heads |-> 0, gets |-> 0, found |-> FALSE,
     url |-> None, destination_path |-> None, fileTotalbytes |-> 0, remaining |-> 0,
     data_blocks |-> <<>>, total |-> 0, launched |-> None, returned |-> None,
     status |-> None, err |-> "", root |-> None, visited |-> <<>>]

Terminal == {"idle", "done", "failed", "killed"}

Init ==
    /\ clock \in Times
    /\ host \in Hosts
    /\ dirs = {}
    /\ cache = None
    /\ bin = <<>>
    /\ proc = [p \in Procs |-> Fresh]
    /\ runs = 0

Set(p, me) == proc' = [proc EXCEPT ![p] = me]

\* an uncaught exception: the traceback is printed and the process ends with
\* status 1.  Of the locals, what is kept is what the run did: the requests
\* it sent and the path it was working on.
Failed(me, e) ==
    [Fresh EXCEPT !.pc = "failed", !.at = me.pc, !.err = e, !.status = Some(1),
                  !.heads = me.heads, !.gets = me.gets,
                  !.url = me.url,
                  !.destination_path = me.destination_path]

\* main is entered (lines 125-127)
StartRun(p) ==
    /\ proc[p].pc \in Terminal
    /\ runs < MaxRuns
    /\ runs' = runs + 1
    /\ \E argv \in Argvs : Set(p, [Fresh EXCEPT !.pc = "makedirs", !.argv = argv])
    /\ UNCHANGED <<clock, host, dirs, cache, bin>>

\* os.makedirs(bazelisk_directory, exist_ok=True) (lines 129-130)
MakeBazeliskDirectory(p) ==
    /\ proc[p].pc = "makedirs"
    /\ dirs' = dirs \cup {BazeliskDirectory}
    /\ Set(p, [proc[p] EXCEPT !.pc = "decide"])
    /\ UNCHANGED <<clock, host, cache, bin, runs>>

\* bazel_version = decide_which_bazel_version_to_use() (line 132), in one of
\* the workspaces W
DecideIn(p, W) ==
    /\ proc[p].pc = "decide"
    /\ \E environ \in Overrides, ws \in W :
        LET r == decide_which_bazel_version_to_use(environ, ws)
            seen == Some([environ |-> environ, ws |-> ws, via |-> r.via])
        IN  IF r.err # ""
            THEN Set(p, [Failed(proc[p], r.err) EXCEPT !.sel = seen, !.argv = proc[p].argv])
            ELSE Set(p, [proc[p] EXCEPT !.pc = "resolve", !.sel = seen, !.via = r.via,
                                        !.version = Some(r.value)])
    /\ UNCHANGED <<clock, host, dirs, cache, bin, runs>>

Decide(p) == DecideIn(p, RunWorkspaces)

\* resolve_version_label_to_number, up to the cache check (lines 62-69, 74)
ResolveVersionLabel(p) ==
    LET me == [proc[p] EXCEPT !.sel = None]
    IN  /\ proc[p].pc = "resolve"
        /\ IF ~IsLatestLabel(me.version[1])
           THEN Set(p, [me EXCEPT !.pc = "makedirs_bin"])
           ELSE LET r == CheckLatestCache(clock, cache)
                IN  IF r.err # "" THEN Set(p, Failed(me, r.err))
                    ELSE IF r.value = "miss" THEN Set(p, [me EXCEPT !.pc = "head"])
                    ELSE Set(p, [me EXCEPT !.pc = "makedirs_bin", !.version = Some(r.value)])
        /\ cache' = IF IsLatestLabel(me.version[1]) THEN AfterCacheRead(cache, clock) ELSE cache
        /\ UNCHANGED <<clock, host, dirs, bin, runs>>

\* latest_version = resolve_latest_version() (lines 57-59, 70)
ResolveLatestVersion(p) ==
    LET me == [proc[p] EXCEPT !.heads = @ + 1]
    IN  /\ proc[p].pc = "head"
        /\ \/ Set(p, AfterHeadFailure(me))
           \/ \E url \in LatestURLs :
                Set(p, [me EXCEPT !.pc = "cache_open",
                                  !.latest_version = Some(resolve_latest_version(url))])
        /\ UNCHANGED <<clock, host, dirs, cache, bin, runs>>

\* open(latest_cache, 'w') (line 71)
OpenLatestCache(p) ==
    /\ proc[p].pc = "cache_open"
    /\ \/ /\ Set(p, Failed(proc[p], "PermissionError"))
          /\ UNCHANGED cache
       \/ /\ cache' = Some([content |-> <<>>, mtime |-> clock,
                            readable |-> IF cache = None THEN TRUE ELSE cache[1].readable])
          /\ Set(p, [proc[p] EXCEPT !.pc = "cache_write"])
    /\ UNCHANGED <<clock, host, dirs, bin, runs>>

\* f.write(latest_version), the file is closed, return latest_version (lines 72-73)
WriteLatestCache(p) ==
    /\ proc[p].pc = "cache_write"
    /\ \/ /\ Set(p, Failed(proc[p], "OSError"))
          /\ UNCHANGED cache
       \/ /\ cache' = Some([cache[1] EXCEPT
                            !.content = OverlayText(@, proc[p].latest_version[1]),
                            !.mtime = clock])
          /\ Set(p, [proc[p] EXCEPT !.pc = "makedirs_bin",
                                    !.version = proc[p].latest_version,
                                    !.latest_version = None])
    /\ UNCHANGED <<clock, host, dirs, bin, runs>>

\* os.makedirs(bazel_directory, exist_ok=True) (lines 136-137)
MakeBazelDirectory(p) ==
    /\ proc[p].pc = "makedirs_bin"
    /\ dirs' = dirs \cup {BazelDirectory}
    /\ Set(p, [proc[p] EXCEPT !.pc = "filename", !.via = ""])
    /\ UNCHANGED <<clock, host, cache, bin, runs>>

\* a main that calls the launcher as soon as the path is known
LocateThenLaunch(p) ==
    /\ proc[p].pc = "filename"
    /\ LET r == determine_bazel_filename(proc[p].version[1], host)
       IN  IF r.err # ""
           THEN Set(p, Failed(proc[p], r.err))
           ELSE Set(p, [proc[p] EXCEPT !.pc = "spawn",
                          !.url = Some(DownloadUrl(proc[p].version[1], r.value)),
                          !.destination_path = Some(DestinationPath(BazelDirectory, r.value))])
    /\ UNCHANGED <<clock, host, dirs, cache, bin, runs>>

\* bazel_filename, url and destination_path (lines 97-99)
LocateArtifact(p) ==
    /\ proc[p].pc = "filename"
    /\ LET r == determine_bazel_filename(proc[p].version[1], host)
       IN  IF r.err # ""
           THEN Set(p, Failed(proc[p], r.err))
           ELSE Set(p, [proc[p] EXCEPT !.pc = "exists",
                          !.url = Some(DownloadUrl(proc[p].version[1], r.value)),
                          !.destination_path = Some(DestinationPath(BazelDirectory, r.value))])
    /\ UNCHANGED <<clock, host, dirs, cache, bin, runs>>

\* if not os.path.exists(destination_path) (line 100)
CheckDestination(p) ==
    /\ proc[p].pc = "exists"
    /\ LET need == NeedsDownload(bin, proc[p].destination_path[1])
       IN  Set(p, [proc[p] EXCEPT !.found = ~need,
                                  !.pc = IF need THEN "urlopen" ELSE "chmod"])
    /\ UNCHANGED <<clock, host, dirs, cache, bin, runs>>

\* u = urllib.request.urlopen(url); int(meta.get("Content-Length")) (lines 101-108),
\* the server answering with one of the responses R
UrlopenFrom(p, R) ==
    LET me == [proc[p] EXCEPT !.gets = @ + 1]
    IN  /\ proc[p].pc = "urlopen"
        /\ \/ Set(p, Failed(me, "URLError"))
           \/ \E resp \in R :
                IF resp.length = None
                THEN Set(p, Failed(me, "TypeError"))
                ELSE Set(p, [me EXCEPT !.pc = "read", !.fileTotalbytes = resp.length[1],
                                       !.remaining = resp.body, !.data_blocks = <<>>,
                                       !.total = 0])
        /\ UNCHANGED <<clock, host, dirs, cache, bin, runs>>

Urlopen(p) == UrlopenFrom(p, Responses)

\* one turn of the loop: block = u.read(1024) ... break (lines 109-117)
ReadBlock(p) ==
    /\ proc[p].pc = "read"
    /\ \/ /\ Set(p, Failed(proc[p], "ConnectionError"))
          /\ UNCHANGED bin
       \/ LET me == proc[p]
              block == NextBlock(me.total, me.remaining)
              blocks == Append(me.data_blocks, block)
              total == me.total + block[2]
          IN  /\ bin' = WhileStreaming(bin, me.destination_path[1], blocks)
              /\ IF ProgressRaises(total, me.fileTotalbytes)
                 THEN Set(p, Failed(me, "ZeroDivisionError"))
                 ELSE Set(p, [me EXCEPT !.data_blocks = blocks, !.total = total,
                                        !.remaining = @ - block[2],
                                        !.pc = IF block[2] = 0 THEN "open" ELSE "read"])
    /\ UNCHANGED <<clock, host, dirs, cache, runs>>

\* open(destination_path, 'wb') (line 121)
OpenDestination(p) ==
    /\ proc[p].pc = "open"
    /\ \/ /\ Set(p, Failed(proc[p], "PermissionError"))
          /\ UNCHANGED bin
       \/ /\ bin' = Truncated(bin, proc[p].destination_path[1])
          /\ Set(p, [proc[p] EXCEPT !.pc = "write"])
    /\ UNCHANGED <<clock, host, dirs, cache, runs>>

\* .write(data) with data = b"".join(data_blocks) (lines 119-121); a write
\* that fails has written none of the data, or a part of it
WriteDestination(p) ==
    /\ proc[p].pc = "write"
    /\ \/ /\ Set(p, Failed(proc[p], "OSError"))
          /\ \E k \in 0..Len(JoinBlocks(proc[p].data_blocks)) :
                /\ k < Len(JoinBlocks(proc[p].data_blocks)) \/ k = 0
                /\ bin' = [bin EXCEPT ![proc[p].destination_path[1]].content =
                                Overlay(@, SubSeq(JoinBlocks(proc[p].data_blocks), 1, k))]
       \/ /\ bin' = [bin EXCEPT ![proc[p].destination_path[1]].content =
                                    Overlay(@, JoinBlocks(proc[p].data_blocks))]
          /\ Set(p, [proc[p] EXCEPT !.pc = "chmod", !.data_blocks = <<>>,
                                    !.total = 0, !.remaining = 0])
    /\ UNCHANGED <<clock, host, dirs, cache, runs>>

\* os.chmod(destination_path, 0o755); return destination_path (lines 122-123)
ChmodDestination(p) ==
    /\ proc[p].pc = "chmod"
    /\ bin' = [bin EXCEPT ![proc[p].destination_path[1]].exec = TRUE]
    /\ Set(p, [proc[p] EXCEPT !.pc = "spawn"])
    /\ UNCHANGED <<clock, host, dirs, cache, runs>>

\* return subprocess.Popen([bazel_path] + argv[1:], close_fds=True).wait() (line 140)
\* and sys.exit(main()) (line 143)
Spawn(p) ==
    /\ proc[p].pc = "spawn"
    /\ \E code \in ReturnCodes :
        Set(p, [proc[p] EXCEPT !.pc = "done",
                  !.launched = Some([cmd |-> CommandLine(proc[p].destination_path[1],
                                                         proc[p].argv),
                                     code |-> code]),
                  !.returned = Some(code),
                  !.status = Some(ExitStatus(code))])
    /\ UNCHANGED <<clock, host, dirs, cache, bin, runs>>

\* the process is killed where it stands
Crash(p) ==
    /\ proc[p].pc \notin Terminal
    /\ Set(p, [Fresh EXCEPT !.pc = "killed", !.at = proc[p].pc, !.url = proc[p].url,
                            !.destination_path = proc[p].destination_path])
    /\ UNCHANGED <<clock, host, dirs, cache, bin, runs>>

\* the system clock is set, forward or backward
SetClock ==
    /\ \E t \in Times \ {clock} : clock' = t
    /\ UNCHANGED <<host, dirs, cache, bin, proc, runs>>

\* the permissions of latest_bazel are changed from outside
ChmodCache ==
    /\ cache # None
    /\ cache' = Some([cache[1] EXCEPT !.readable = ~@])
    /\ UNCHANGED <<clock, host, dirs, bin, proc, runs>>

Step(p) ==
    \/ StartRun(p)
    \/ MakeBazeliskDirectory(p)
    \/ Decide(p)
    \/ ResolveVersionLabel(p)
    \/ ResolveLatestVersion(p)
    \/ OpenLatestCache(p)
    \/ WriteLatestCache(p)
    \/ MakeBazelDirectory(p)
    \/ LocateArtifact(p)
    \/ CheckDestination(p)
    \/ Urlopen(p)
    \/ ReadBlock(p)
    \/ OpenDestination(p)
    \/ WriteDestination(p)
    \/ ChmodDestination(p)
    \/ Spawn(p)
    \/ Crash(p)

Next ==
    \/ \E p \in SeqProcs : Step(p)
    \/ SetClock
    \/ ChmodCache

Spec == Init /\ [][Next]_vars

----------------------------------------------------------------------------
(* The selector alone, applied in every workspace *)

InitSelect ==
    /\ clock \in Times
    /\ host \in Hosts
    /\ dirs = {BazeliskDirectory}
    /\ cache = None
    /\ bin = <<>>
    /\ runs = 1
    /\ \E argv \in Argvs :
         proc = [p \in Procs |->
                   IF p \in SeqProcs THEN [Fresh EXCEPT !.pc = "decide", !.argv = argv]
                   ELSE Fresh]

Select(p) == DecideIn(p, Workspaces)

NextSelect == \E p \in SeqProcs : Select(p)

SpecSelect == InitSelect /\ [][NextSelect]_vars

----------------------------------------------------------------------------
(* The selector with find_workspace_root taken call by call *)

\* the walk looks at neither the clock nor the host
InitWalk ==
    /\ clock = 0
    /\ host = [machine |-> X86_64, system |-> <<"L", "i", "n", "u", "x">>]
    /\ dirs = {BazeliskDirectory}
    /\ cache = None
    /\ bin = <<>>
    /\ runs = 1
    /\ \E argv \in Argvs :
         proc = [p \in Procs |->
                   IF p \in SeqProcs THEN [Fresh EXCEPT !.pc = "decide", !.argv = argv]
                   ELSE Fresh]

\* 'USE_BAZEL_VERSION' in os.environ, and the first call of
\* find_workspace_root with root = os.getcwd() (lines 37-40, 49-50)
EnterSelector(p) ==
    /\ proc[p].pc = "decide"
    /\ \E environ \in Overrides, ws \in WalkWorkspaces :
        IF environ # None
        THEN Set(p, [proc[p] EXCEPT !.pc = "resolve", !.via = "override",
                       !.sel = Some([environ |-> environ, ws |-> ws, via |-> "override"]),
                       !.version = Some(environ[1])])
        ELSE Set(p, [proc[p] EXCEPT !.pc = "walk", !.root = Some(ws.cwd),
                       !.sel = Some([environ |-> environ, ws |-> ws, via |-> ""])])
    /\ UNCHANGED <<clock, host, dirs, cache, bin, runs>>

\* one call of find_workspace_root (lines 51-54); a call made when the
\* interpreter has no frame left raises RecursionError
WalkUp(p) ==
    /\ proc[p].pc = "walk"
    /\ LET me == proc[p]
           r == find_workspace_root_call(me.sel[1].ws, me.root[1])
           seen == Append(me.visited, me.root[1])
       IN  IF Len(me.visited) >= RecursionLimit
           THEN IF SelectorCatches("RecursionError")
                THEN Set(p, [me EXCEPT !.pc = "resolve", !.via = "fallback", !.root = None,
                                       !.version = Some(LATEST)])
                ELSE Set(p, [Failed(me, "RecursionError") EXCEPT
                                !.sel = me.sel, !.visited = me.visited, !.argv = me.argv])
           ELSE IF r.returns
                THEN Set(p, [me EXCEPT !.pc = "pin", !.root = r.value, !.visited = seen])
                ELSE Set(p, [me EXCEPT !.root = r.value, !.visited = seen])
    /\ UNCHANGED <<clock, host, dirs, cache, bin, runs>>

\* if workspace_root: ... return "latest" (lines 41-46)
ReadPinFile(p) ==
    /\ proc[p].pc = "pin"
    /\ LET me == proc[p]
           r == decide_with_root(me.sel[1].ws, me.root)
       IN  IF r.err # ""
           THEN Set(p, [Failed(me, r.err) EXCEPT !.sel = me.sel, !.root = me.root,
                           !.visited = me.visited, !.argv = me.argv])
           ELSE Set(p, [me EXCEPT !.pc = "resolve", !.via = r.via,
                                  !.version = Some(r.value)])
    /\ UNCHANGED <<clock, host, dirs, cache, bin, runs>>

NextWalk == \E p \in SeqProcs : EnterSelector(p) \/ WalkUp(p) \/ ReadPinFile(p)

\* the interpreter goes on executing the one thread there is
SpecWalk == InitWalk /\ [][NextWalk]_vars /\ WF_vars(NextWalk)

----------------------------------------------------------------------------
(* Two invocations of main at once, on one ~/.bazelisk: both past the      *)
(* selector with "latest", each taking its steps when the scheduler lets   *)
(* it, the server sending the whole artifact to whoever asks.              *)

InitRace ==
    /\ clock = 0
    /\ host = [machine |-> X86_64, system |-> <<"L", "i", "n", "u", "x">>]
    /\ dirs = {BazeliskDirectory}
    /\ cache = None
    /\ bin = <<>>
    /\ runs = 2
    /\ proc = [p \in Procs |->
                 [Fresh EXCEPT !.pc = "resolve", !.argv = <<"bazelisk">>,
                               !.via = "fallback", !.version = Some(LATEST)]]

Pipeline(p) ==
    \/ ResolveVersionLabel(p)
    \/ ResolveLatestVersion(p)
    \/ OpenLatestCache(p)
    \/ WriteLatestCache(p)
    \/ MakeBazelDirectory(p)
    \/ LocateArtifact(p)
    \/ CheckDestination(p)
    \/ UrlopenFrom(p, RaceResponses)
    \/ ReadBlock(p)
    \/ OpenDestination(p)
    \/ WriteDestination(p)
    \/ ChmodDestination(p)
    \/ Spawn(p)

NextRace == \E p \in Procs : Pipeline(p)

SpecRace == InitRace /\ [][NextRace]_vars

----------------------------------------------------------------------------
(* The locator alone, applied to every version on every host *)

InitLocate ==
    /\ clock \in Times
    /\ host \in LocateHosts
    /\ dirs = {BazeliskDirectory, BazelDirectory}
    /\ cache = None
    /\ bin = <<>>
    /\ runs = 1
    /\ \E argv \in Argvs, version \in LocateVersions :
         proc = [p \in Procs |->
                   IF p \in SeqProcs
                   THEN [Fresh EXCEPT !.pc = "filename", !.argv = argv,
                                       !.version = Some(version)]
                   ELSE Fresh]

NextLocate == \E p \in SeqProcs : LocateArtifact(p)

SpecLocate == InitLocate /\ [][NextLocate]_vars

----------------------------------------------------------------------------
(* What the claims are stated with *)

\* t is s without its leading and trailing whitespace
IsTrimOf(t, s) ==
    \E i, j \in 0..Len(s) :
        /\ i + j <= Len(s)
        /\ \A k \in 1..i : s[k] \in Whitespace
        /\ \A k \in (Len(s) - j + 1)..Len(s) : s[k] \in Whitespace
        /\ t = SubSeq(s, i + 1, Len(s) - j)
        /\ t # <<>> => t[1] \notin Whitespace /\ t[Len(t)] \notin Whitespace
        /\ t = <<>> => i + j = Len(s)

\* d is the workspace root of ws: the nearest directory at or above the
\* working directory that holds a WORKSPACE file
IsRootOf(d, ws) ==
    /\ d \in ws.markers
    /\ d <= ws.cwd
    /\ \A e \in ws.markers : e <= ws.cwd => e <= d

HasRoot(ws) == \E d \in DOMAIN ws.pins : IsRootOf(d, ws)

\* the .bazelversion of the workspace root
RootPin(ws) == ws.pins[CHOOSE d \in DOMAIN ws.pins : IsRootOf(d, ws)]

\* the selector has returned to main, with no exception
Selects(me, v) == me.pc = "resolve" /\ me.err = "" /\ me.version = Some(v)

----------------------------------------------------------------------------
(* C1: the selector returns the value of USE_BAZEL_VERSION whenever it is  *)
(* set, whatever the workspace holds; otherwise the trimmed contents of    *)
(* the workspace root's .bazelversion when a root is found and the file    *)
(* can be read; otherwise, with no root or no such file, "latest".         *)
C1_Precedence ==
    \A p \in SeqProcs :
        proc[p].sel # None =>
            LET me == proc[p]
                environ == me.sel[1].environ
                ws == me.sel[1].ws
            IN  /\ environ # None => Selects(me, environ[1])
                /\ environ = None /\ HasRoot(ws) /\ RootPin(ws).state = "file" =>
                       /\ me.pc = "resolve"
                       /\ me.version # None
                       /\ IsTrimOf(me.version[1], RootPin(ws).content)
                /\ environ = None /\ (~HasRoot(ws) \/ RootPin(ws).state = "absent") =>
                       Selects(me, LATEST)

\* the pin file of a root above the working directory was read and trimmed,
\* a nearer directory holding no WORKSPACE file
C1_Witness ==
    \E p \in SeqProcs :
        /\ proc[p].sel # None
        /\ proc[p].sel[1].environ = None
        /\ proc[p].sel[1].ws.markers = {0}
        /\ proc[p].sel[1].ws.cwd = 1
        /\ proc[p].sel[1].ws.pins[0].content = <<"7", "\n">>
        /\ proc[p].pc = "resolve"
        /\ proc[p].version = Some(V7)

(* C7, as amended: with no override and a workspace root found, an absent  *)
(* pin file is no error (the selector returns "latest" and the run goes    *)
(* on), and a pin file that cannot be read raises the error of the read,   *)
(* which ends the run.                                                     *)
C7_AbsentFallsThroughUnreadableRaises ==
    \A p \in SeqProcs :
        (proc[p].sel # None /\ proc[p].sel[1].environ = None /\ HasRoot(proc[p].sel[1].ws)) =>
            LET me == proc[p]
                pin == RootPin(me.sel[1].ws)
            IN  /\ pin.state = "absent" => Selects(me, LATEST)
                /\ pin.state = "unreadable" =>
                       /\ me.pc = "failed"
                       /\ me.at = "decide"
                       /\ me.err = "PermissionError"
                       /\ me.version = None
                       /\ me.status = Some(1)

\* the selector met an unreadable pin file
C7_Witness ==
    \E p \in SeqProcs :
        /\ proc[p].sel # None
        /\ proc[p].sel[1].environ = None
        /\ HasRoot(proc[p].sel[1].ws)
        /\ RootPin(proc[p].sel[1].ws).state = "unreadable"
        /\ proc[p].pc = "failed"

\* C7 as the specification states it: neither an absent nor an unreadable
\* pin file is an error, and the selector returns "latest"
C7_Original ==
    \A p \in SeqProcs :
        (/\ proc[p].sel # None
         /\ proc[p].sel[1].environ = None
         /\ HasRoot(proc[p].sel[1].ws)
         /\ RootPin(proc[p].sel[1].ws).state \in {"absent", "unreadable"}) =>
            Selects(proc[p], LATEST)

----------------------------------------------------------------------------
(* More of what the claims are stated with *)

\* the host is one determine_bazel_filename has no name for
UnsupportedHost ==
    \/ host.machine # X86_64
    \/ host.system \notin {<<"L", "i", "n", "u", "x">>, <<"D", "a", "r", "w", "i", "n">>,
                           <<"W", "i", "n", "d", "o", "w", "s">>}

UnsupportedErrors == {"UnsupportedMachine", "UnsupportedSystem"}

\* the positions of download_bazel_into_directory after the file name is known
AfterLocate == {"exists", "urlopen", "read", "open", "write", "chmod", "spawn", "done"}

\* p executes lines 62-69 of resolve_version_label_to_number in this step
ResolveStep(p) == proc[p].pc = "resolve" /\ proc'[p].pc \notin {"resolve", "killed"}

\* the versions the latest-release endpoint can redirect to
ServedVersions == {V7, V8}

\* how far the clock stands from the cache file's modification time, in
\* either direction
Age == IF cache = None THEN 0 ELSE Abs(clock - cache[1].mtime)

----------------------------------------------------------------------------
(* C2, as amended: on a host whose architecture is not x86_64 or whose OS  *)
(* is not linux, darwin or windows, a run of main aborts with the          *)
(* unsupported-platform error before any GET of the artifact, before any   *)
(* file is written to bin and before the launcher; by then both            *)
(* directories exist and the version has been resolved (the cache read     *)
(* and, on a miss, the HEAD sent and the cache written).                   *)
C2_AbortsBeforeDownloadOnly ==
    UnsupportedHost =>
        /\ bin = <<>>
        /\ \A p \in SeqProcs :
            /\ proc[p].gets = 0
            /\ proc[p].launched = None
            /\ proc[p].pc \notin AfterLocate
            /\ proc[p].err \in UnsupportedErrors =>
                   /\ proc[p].pc = "failed"
                   /\ proc[p].at = "filename"
                   /\ proc[p].status = Some(1)
                   /\ {BazeliskDirectory, BazelDirectory} \subseteq dirs

\* a run on an unsupported host aborted after it had sent the HEAD request
\* and written the cache file
C2_Witness ==
    /\ UnsupportedHost
    /\ \E p \in SeqProcs :
        /\ proc[p].err \in UnsupportedErrors
        /\ proc[p].heads = 1
        /\ cache # None
        /\ runs = 1

\* C2 as the specification states it: on an unsupported host no directory
\* is created, the cache file is not written and no request is sent
C2_Original ==
    UnsupportedHost =>
        /\ dirs = {}
        /\ cache = None
        /\ bin = <<>>
        /\ \A p \in SeqProcs : proc[p].heads = 0 /\ proc[p].gets = 0

(* C3, as amended: for a "latest" request with a readable cache file of    *)
(* modification time T holding V, a resolution at a time t with            *)
(* |t - T| < 3600 returns V (trimmed) and sends no request; one with       *)
(* |t - T| >= 3600 sends exactly one request to the latest-release         *)
(* endpoint and, when the request succeeds and the file can be written,    *)
(* overwrites the cache file with the version resolved and returns it.     *)
C3_CacheTtl ==
    /\ [](\A p \in SeqProcs : proc[p].heads <= 1)
    /\ [][\A p \in SeqProcs :
            /\ (ResolveStep(p) /\ proc[p].version = Some(LATEST) /\ cache # None) =>
                 /\ (Age < ONE_HOUR /\ cache[1].readable) =>
                        /\ proc'[p].pc = "makedirs_bin"
                        /\ proc'[p].version # None
                        /\ IsTrimOf(proc'[p].version[1], cache[1].content)
                        /\ proc'[p].heads = proc[p].heads
                        /\ cache' = cache
                 /\ Age >= ONE_HOUR =>
                        /\ proc'[p].pc = "head"
                        /\ proc'[p].heads = proc[p].heads
            /\ (proc[p].pc = "head" /\ proc'[p].pc \notin {"head", "killed"}) =>
                 /\ proc'[p].heads = proc[p].heads + 1
                 /\ \/ proc'[p].pc = "failed"
                    \/ /\ proc'[p].pc = "cache_open"
                       /\ proc'[p].latest_version # None
                       /\ proc'[p].latest_version[1] \in ServedVersions
            /\ (proc[p].pc = "cache_write" /\ proc'[p].pc = "makedirs_bin") =>
                 /\ cache' # None
                 /\ cache'[1].content = proc[p].latest_version[1]
                 /\ cache'[1].mtime = clock
                 /\ proc'[p].version = proc[p].latest_version
         ]_vars

\* a second run returned the cached version without a request, the clock
\* standing before the file's modification time
C3_Witness ==
    \E p \in SeqProcs :
        /\ runs = 2
        /\ proc[p].pc = "makedirs_bin"
        /\ proc[p].via = "fallback"
        /\ proc[p].heads = 0
        /\ cache # None
        /\ proc[p].version = Some(cache[1].content)
        /\ clock < cache[1].mtime

\* C3 as the specification states it, for a readable cache file: t - T
\* below the TTL is a hit, t - T at or above it is a miss
C3_Original ==
    [][\A p \in SeqProcs :
        (/\ ResolveStep(p)
         /\ proc[p].version = Some(LATEST)
         /\ cache # None
         /\ cache[1].readable) =>
            /\ clock - cache[1].mtime < ONE_HOUR =>
                   /\ proc'[p].pc = "makedirs_bin"
                   /\ proc'[p].version = Some(cache[1].content)
                   /\ proc'[p].heads = proc[p].heads
            /\ clock - cache[1].mtime >= ONE_HOUR => proc'[p].pc = "head"
     ]_vars

(* C6, as amended: when the descriptor came from USE_BAZEL_VERSION or from *)
(* the pin file and is any string other than "latest",                     *)
(* resolve_version_label_to_number returns exactly that value, sends no    *)
(* request and leaves the cache file alone, whatever state the file is in; *)
(* the value "latest" is resolved like the fallback, through the cache     *)
(* and the network.                                                        *)
C6_ExplicitUnchanged ==
    [][\A p \in SeqProcs :
        (ResolveStep(p) /\ proc[p].via \in {"override", "pin"}) =>
            IF proc[p].version # Some(LATEST)
            THEN /\ proc'[p].pc = "makedirs_bin"
                 /\ proc'[p].version = proc[p].version
                 /\ proc'[p].heads = proc[p].heads
                 /\ cache' = cache
            ELSE \/ proc'[p].pc = "head"
                 \/ proc'[p].pc = "failed"
                 \/ /\ proc'[p].pc = "makedirs_bin"
                    /\ cache # None
                    /\ Age < ONE_HOUR
                    /\ IsTrimOf(proc'[p].version[1], cache[1].content)
     ]_vars

\* an explicit version was returned as it was, with no request, while the
\* cache file was fresh and unreadable: a read of it would have raised
C6_Witness ==
    \E p \in SeqProcs :
        /\ proc[p].pc = "makedirs_bin"
        /\ proc[p].via = "override"
        /\ proc[p].version = Some(V7)
        /\ proc[p].heads = 0
        /\ cache # None
        /\ ~cache[1].readable
        /\ Age < ONE_HOUR

\* C6 as the specification states it: every explicit value is returned
\* unchanged, with no request and the cache file left alone
C6_Original ==
    [][\A p \in SeqProcs :
        (ResolveStep(p) /\ proc[p].via \in {"override", "pin"}) =>
            /\ proc'[p].pc = "makedirs_bin"
            /\ proc'[p].version = proc[p].version
            /\ proc'[p].heads = proc[p].heads
            /\ cache' = cache
     ]_vars

(* C4: a call of download_bazel_into_directory that finds the file of an   *)
(* earlier successful call (same version, same platform, hence the same    *)
(* path) is a local no-op: it sends no request, leaves the files of bin    *)
(* as they are and returns that path; a successful call sends one GET      *)
(* when it found no file and none when it found one, so the two calls      *)
(* send exactly one between them.                                          *)
C4_IdempotentDownload ==
    /\ [](\A p \in SeqProcs :
            proc[p].pc \in {"chmod", "spawn", "done"} =>
                /\ proc[p].gets = IF proc[p].found THEN 0 ELSE 1
                /\ proc[p].destination_path # None
                /\ proc[p].destination_path[1] \in DOMAIN bin)
    /\ [][\A p \in SeqProcs :
            LET me == proc[p]
                path == me.destination_path[1]
            IN  /\ (me.pc = "exists" /\ proc'[p].pc \notin {"exists", "killed"}
                        /\ path \in DOMAIN bin) =>
                     /\ proc'[p].pc = "chmod"
                     /\ proc'[p].found
                     /\ proc'[p].gets = 0
                     /\ bin' = bin
                /\ (me.pc = "chmod" /\ proc'[p].pc \notin {"chmod", "killed"}
                        /\ me.found /\ bin[path].exec) =>
                     /\ proc'[p].pc = "spawn"
                     /\ proc'[p].gets = 0
                     /\ proc'[p].destination_path = me.destination_path
                     /\ bin' = bin
         ]_vars

\* the second run found the executable file the first run had left and is
\* about to return its path, having sent no GET
C4_Witness ==
    \E p \in SeqProcs :
        /\ runs = 2
        /\ proc[p].pc = "chmod"
        /\ proc[p].found
        /\ proc[p].gets = 0
        /\ bin[proc[p].destination_path[1]].exec
        /\ Len(bin[proc[p].destination_path[1]].content) = 2

(* C5, as amended: a download attempt that ends before the destination is  *)
(* opened for writing (connection or HTTP failure, missing Content-Length  *)
(* header, a Content-Length of 0, a failure or a crash while the body is   *)
(* being streamed, a failure to open the destination) leaves no file at    *)
(* the destination, so the next run downloads again; a failure of the      *)
(* write, or a crash, after the destination has been opened leaves a file  *)
(* there, empty or partial, and the next run takes it for the binary.      *)
C5_FailedDownloadLeavesNoFile ==
    \A p \in SeqProcs :
        LET me == proc[p]
        IN  /\ (me.pc = "failed" /\ me.at \in {"urlopen", "read", "open"}) =>
                   /\ me.gets = 1
                   /\ me.destination_path[1] \notin DOMAIN bin
            /\ (me.pc = "killed" /\ me.at \in {"urlopen", "read", "open"}) =>
                   me.destination_path[1] \notin DOMAIN bin
            /\ (me.pc \in {"failed", "killed"} /\ me.at = "write") =>
                   me.destination_path[1] \in DOMAIN bin

\* the connection broke after the first block had been read
C5_Witness ==
    \E p \in SeqProcs :
        /\ proc[p].pc = "failed"
        /\ proc[p].at = "read"
        /\ proc[p].err = "ConnectionError"
        /\ proc[p].gets = 1
        /\ proc[p].destination_path[1] \notin DOMAIN bin

\* C5 as the specification states it: no download attempt that fails,
\* a failing write among them, leaves a file at the destination
C5_Original ==
    \A p \in SeqProcs :
        (\/ proc[p].pc = "failed" /\ proc[p].gets = 1
         \/ proc[p].pc = "killed" /\ proc[p].at = "read") =>
            proc[p].destination_path[1] \notin DOMAIN bin

(* C8, as amended: for a "latest" request, a cache file that is missing or *)
(* expired (readable or not) sends the resolver down the miss path: it     *)
(* queries the latest-release endpoint, truncates the cache file, writes   *)
(* the version resolved to it and returns it.  A cache file that is        *)
(* within the TTL and cannot be read raises the error of the read, which   *)
(* ends the run with no request sent.                                      *)
C8_MissPath ==
    [][\A p \in SeqProcs :
        LET me == proc[p]
        IN  /\ (ResolveStep(p) /\ me.version = Some(LATEST)) =>
                 /\ (cache = None \/ Age >= ONE_HOUR) =>
                        /\ proc'[p].pc = "head"
                        /\ cache' = cache
                 /\ (cache # None /\ Age < ONE_HOUR /\ ~cache[1].readable) =>
                        /\ proc'[p].pc = "failed"
                        /\ proc'[p].at = "resolve"
                        /\ proc'[p].err = "PermissionError"
                        /\ proc'[p].heads = 0
                        /\ proc'[p].status = Some(1)
                        /\ cache' = cache
            /\ (me.pc = "head" /\ proc'[p].pc = "cache_open") =>
                 /\ proc'[p].heads = 1
                 /\ proc'[p].latest_version[1] \in ServedVersions
            /\ (me.pc = "cache_open" /\ proc'[p].pc = "cache_write") =>
                 /\ cache' # None
                 /\ cache'[1].content = <<>>
            /\ (me.pc = "cache_write" /\ proc'[p].pc = "makedirs_bin") =>
                 /\ cache'[1].content = me.latest_version[1]
                 /\ proc'[p].version = me.latest_version
     ]_vars

\* the resolver met a cache file within the TTL that it could not read
C8_Witness ==
    \E p \in SeqProcs :
        /\ proc[p].pc = "failed"
        /\ proc[p].at = "resolve"
        /\ proc[p].err = "PermissionError"
        /\ cache # None
        /\ ~cache[1].readable

\* C8 as the specification states it: a missing, an expired and an
\* unreadable cache file all lead to the miss path
C8_Original ==
    [][\A p \in SeqProcs :
        (/\ ResolveStep(p)
         /\ proc[p].version = Some(LATEST)
         /\ (cache = None \/ Age >= ONE_HOUR \/ ~cache[1].readable)) =>
            proc'[p].pc = "head"
     ]_vars

(* C9: a run sends at most one request to the latest-release endpoint and  *)
(* at most one GET; when the latest-release request fails the exception    *)
(* leaves main: the cache file and the files of bin are as they were, no   *)
(* version is returned (a stale cached value is no fallback), no GET is    *)
(* sent and the launcher is not invoked, and the run does nothing more.    *)
C9_NoRetry ==
    /\ [](\A p \in SeqProcs :
            /\ proc[p].heads <= 1
            /\ proc[p].gets <= 1
            /\ (proc[p].pc = "failed" /\ proc[p].at = "head") =>
                   /\ proc[p].err = "URLError"
                   /\ proc[p].heads = 1
                   /\ proc[p].gets = 0
                   /\ proc[p].version = None
                   /\ proc[p].destination_path = None
                   /\ proc[p].launched = None
                   /\ proc[p].status = Some(1))
    /\ [][\A p \in SeqProcs :
            /\ (proc[p].pc = "head" /\ proc'[p].pc = "failed") =>
                   cache' = cache /\ bin' = bin
            /\ proc[p].pc = "failed" =>
                   /\ proc'[p] = proc[p] \/ proc'[p].pc = "makedirs"
                   /\ bin' = bin
                   /\ cache' = cache \/ (cache # None /\ cache' # None
                                         /\ cache'[1].content = cache[1].content
                                         /\ cache'[1].mtime = cache[1].mtime)
         ]_vars

\* the request of a second run failed while an expired cache file lay there
C9_Witness ==
    \E p \in SeqProcs :
        /\ proc[p].pc = "failed"
        /\ proc[p].at = "head"
        /\ cache # None
        /\ cache[1].content \in ServedVersions
        /\ Age >= ONE_HOUR

(* C10: when every stage succeeds main spawns the binary once, with the    *)
(* path the downloader returned followed by argv[1:] in order, and the     *)
(* value main returns is what wait() returned; for every exit code (0 to   *)
(* 255) it is the status the process ends with.                            *)
C10_ForwardsArgsAndExitCode ==
    /\ [](\A p \in SeqProcs :
            /\ proc[p].launched # None <=> proc[p].pc = "done"
            /\ proc[p].pc = "done" =>
                LET me == proc[p]
                    cmd == me.launched[1].cmd
                IN  /\ Len(cmd) = Len(me.argv)
                    /\ cmd[1] = me.destination_path[1]
                    /\ \A i \in 2..Len(me.argv) : cmd[i] = me.argv[i]
                    /\ me.returned = Some(me.launched[1].code)
                    /\ me.launched[1].code \in 0..255 =>
                           me.status = Some(me.launched[1].code))
    /\ [][\A p \in SeqProcs :
            proc[p].launched # None =>
                proc'[p].launched = proc[p].launched \/ proc'[p].pc = "makedirs"
         ]_vars

\* a run with two arguments ended with the child's exit code 255
C10_Witness ==
    \E p \in SeqProcs :
        /\ proc[p].pc = "done"
        /\ Len(proc[p].argv) = 3
        /\ proc[p].launched[1].cmd[2] = "build"
        /\ proc[p].returned = Some(255)
        /\ proc[p].status = Some(255)

----------------------------------------------------------------------------
\* no directory occurs twice in s
NoRepeat(s) == \A i, j \in 1..Len(s) : s[i] = s[j] => i = j

\* the walk of p has ended, one way or the other
WalkOver(me) == me.sel # None /\ me.sel[1].environ = None /\ me.pc # "walk"

(* C11, as the specification states it: from any working directory the      *)
(* walk visits each ancestor at most once and ends by returning the        *)
(* nearest ancestor holding a WORKSPACE file, or "no workspace root" when  *)
(* the root's parent is the root; with no WORKSPACE file up to the root    *)
(* and no override the selector returns "latest".                          *)
C11_Original ==
    /\ [](\A p \in SeqProcs :
            LET me == proc[p]
            IN  /\ NoRepeat(me.visited)
                /\ WalkOver(me) =>
                       /\ me.at # "walk"
                       /\ me.root = IF HasRoot(me.sel[1].ws)
                                    THEN Some(CHOOSE d \in WalkDirs : IsRootOf(d, me.sel[1].ws))
                                    ELSE None
                /\ (WalkOver(me) /\ ~HasRoot(me.sel[1].ws) /\ me.pc # "pin") =>
                       Selects(me, LATEST))
    /\ \A p \in SeqProcs : (proc[p].pc = "walk") ~> (proc[p].pc = "resolve" \/ proc[p].at = "pin")

----------------------------------------------------------------------------
\* the positions of main at which download_bazel_into_directory holds the version
InDownloader == {"filename"} \cup (AfterLocate \ {"done"})

\* a version a URL and a file name can be built from
WellFormedVersion(v) == v # <<>> /\ \A i \in 1..Len(v) : v[i] # "/"

(* C12, as the specification states it: every version that reaches the      *)
(* locator and the downloader is non-empty and holds no path separator,    *)
(* whether it came from the override, the pin file, the cache file or the  *)
(* latest-release URL, and whatever earlier runs did, those that failed or *)
(* crashed while writing the cache file included.                          *)
C12_Original ==
    \A p \in SeqProcs :
        proc[p].pc \in InDownloader =>
            /\ proc[p].version # None
            /\ WellFormedVersion(proc[p].version[1])

\* a run took the empty version from the cache file: an earlier run was
\* killed, or its write failed, after open(latest_cache, 'w') had emptied it
EmptyVersionFromCache ==
    \E p \in SeqProcs :
        /\ runs = 2
        /\ proc[p].pc = "makedirs_bin"
        /\ proc[p].via = "fallback"
        /\ proc[p].heads = 0
        /\ proc[p].version = Some(<<>>)

----------------------------------------------------------------------------
\* the OS part of the platform tag
OsTag(system) ==
    CASE system = <<"L", "i", "n", "u", "x">> -> <<"l", "i", "n", "u", "x">>
      [] system = <<"D", "a", "r", "w", "i", "n">> -> <<"d", "a", "r", "w", "i", "n">>
      [] system = <<"W", "i", "n", "d", "o", "w", "s">> -> <<"w", "i", "n", "d", "o", "w", "s">>
      [] OTHER -> <<>>

SupportedHost(h) == h.machine = X86_64 /\ OsTag(h.system) # <<>>

\* "bazel-<version>-<os>-<arch>"
ExpectedFilename(version, h) ==
    <<"b", "a", "z", "e", "l">> \o <<"-">> \o version \o <<"-">> \o OsTag(h.system)
        \o <<"-", "x", "8", "6", "_", "6", "4">>

\* the distribution host followed by "/<version>/release/<filename>"
ExpectedUrl(version, filename) ==
    <<"h", "t", "t", "p", "s", ":", "/", "/">>
        \o <<"r", "e", "l", "e", "a", "s", "e", "s", ".", "b", "a", "z", "e", "l", ".",
             "b", "u", "i", "l", "d">>
        \o <<"/">> \o version \o <<"/">> \o <<"r", "e", "l", "e", "a", "s", "e">>
        \o <<"/">> \o filename

(* C13: on a supported host the locator yields the file name               *)
(* "bazel-<version>-<os>-<arch>" with the OS name in lower case, the URL   *)
(* of the distribution host followed by "/<version>/release/<filename>"    *)
(* and the path "<download_directory>/<filename>"; applied again to the    *)
(* same version and platform it yields the same file name, and to any      *)
(* other version or platform a different one.                              *)
C13_DeterministicNaming ==
    \A p \in SeqProcs :
        LET me == proc[p]
        IN  /\ me.pc # "filename" => ((me.pc = "exists") <=> SupportedHost(host))
            /\ me.pc = "exists" =>
                  LET version == me.version[1]
                      filename == ExpectedFilename(version, host)
                  IN  /\ me.url = Some(ExpectedUrl(version, filename))
                      /\ me.destination_path =
                             Some(<<"~", "/", ".", "b", "a", "z", "e", "l", "i", "s", "k",
                                    "/", "b", "i", "n", "/">> \o filename)
                      /\ \A v \in LocateVersions, h \in LocateHosts :
                             SupportedHost(h) =>
                                 LET again == determine_bazel_filename(v, h)
                                 IN  /\ again.err = ""
                                     /\ (again.value = filename) <=>
                                            (v = version /\ OsTag(h.system) = OsTag(host.system))

\* the locator was applied to a version ending in a dash, on Windows
C13_Witness ==
    \E p \in SeqProcs :
        /\ proc[p].pc = "exists"
        /\ proc[p].version = Some(<<"7", "-">>)
        /\ host.system = <<"W", "i", "n", "d", "o", "w", "s">>
        /\ proc[p].destination_path # None
        /\ Len(proc[p].destination_path[1]) = 16 + 5 + 1 + 2 + 1 + 7 + 1 + 6

----------------------------------------------------------------------------
\* content is the first n bytes of the body, each once and in order
WholeBody(content, n) ==
    /\ Bytes(content) = n
    /\ content # <<>> => content[1][1] = 0
    /\ \A i \in 1..Len(content) : content[i][2] > 0
    /\ \A i \in 1..(Len(content) - 1) : content[i + 1][1] = content[i][1] + content[i][2]

BinPrefix == <<"~", "/", ".", "b", "a", "z", "e", "l", "i", "s", "k", "/", "b", "i", "n", "/">>

\* the selector found neither an override nor a pin file
NothingPinned(me) ==
    /\ me.sel # None
    /\ me.sel[1].environ = None
    /\ ~HasRoot(me.sel[1].ws) \/ RootPin(me.sel[1].ws).state = "absent"

(* C14: the success path.  With no override and no pin file the selector   *)
(* returns "latest"; with no cache file the resolver asks the              *)
(* latest-release endpoint once, and the version V it is redirected to is  *)
(* written to the cache file and used; the destination is                  *)
(* <cache_dir>/bin/bazel-V-<platform>; a stream that is read to its end    *)
(* is written there whole, every block once and in order, so that with a   *)
(* Content-Length equal to the body's length the file holds exactly the    *)
(* body; the file is made executable and the launcher is given that path.  *)
C14_SuccessPath ==
    /\ [](\A p \in SeqProcs :
            LET me == proc[p]
                path == me.destination_path[1]
            IN  /\ (me.pc = "resolve" /\ NothingPinned(me)) => me.version = Some(LATEST)
                /\ (me.heads = 1 /\ me.pc \in {"makedirs_bin", "filename"} \cup AfterLocate) =>
                       /\ cache # None
                       /\ cache[1].content \in ServedVersions
                       /\ me.version = Some(cache[1].content)
                /\ me.pc \in AfterLocate =>
                       me.destination_path =
                           Some(BinPrefix \o ExpectedFilename(me.version[1], host))
                /\ me.pc \in {"open", "write"} =>
                       /\ me.remaining = 0
                       /\ WholeBody(JoinBlocks(me.data_blocks), me.total)
                /\ (me.pc \in {"chmod", "spawn", "done"} /\ me.gets = 1) =>
                       /\ path \in DOMAIN bin
                       /\ WholeBody(bin[path].content, Bytes(bin[path].content))
                /\ me.pc \in {"spawn", "done"} => bin[path].exec
                /\ me.pc = "done" => me.launched[1].cmd[1] = path)
    /\ [][\A p \in SeqProcs :
            LET me == proc[p]
            IN  /\ (ResolveStep(p) /\ me.version = Some(LATEST) /\ cache = None) =>
                     proc'[p].pc = "head" /\ proc'[p].heads = 0
                /\ (me.pc = "head" /\ proc'[p].pc = "cache_open") =>
                     /\ proc'[p].heads = 1
                     /\ proc'[p].latest_version # None
                     /\ proc'[p].latest_version[1] \in ServedVersions
                /\ (me.pc = "urlopen" /\ proc'[p].pc = "read") => proc'[p].gets = 1
                /\ (me.pc = "read" /\ proc'[p].pc \in {"read", "open"}) =>
                     proc'[p].total + proc'[p].remaining = me.total + me.remaining
                /\ (me.pc = "write" /\ proc'[p].pc = "chmod") =>
                     WholeBody(bin'[me.destination_path[1]].content, me.total)
         ]_vars

\* a first run that found no cache file ended with the version it was
\* redirected to in the cache file, the whole body (as long as its
\* Content-Length) in the file of that version, executable, and launched
C14_Witness ==
    \E p \in SeqProcs :
        LET me == proc[p]
        IN  /\ runs = 1
            /\ me.pc = "done"
            /\ me.heads = 1
            /\ me.gets = 1
            /\ cache # None
            /\ cache[1].content = V8
            /\ me.fileTotalbytes = BodySize
            /\ me.destination_path = Some(BinPrefix \o ExpectedFilename(V8, host))
            /\ bin[me.destination_path[1]].content = <<<<0, BlockSize>>, <<BlockSize, ExtraBytes>>>>
            /\ bin[me.destination_path[1]].exec
            /\ me.launched[1].cmd[1] = me.destination_path[1]

----------------------------------------------------------------------------
\* the file at the destination of p is the whole artifact the server holds
CompleteArtifact(me) ==
    /\ me.destination_path # None
    /\ me.destination_path[1] \in DOMAIN bin
    /\ WholeBody(bin[me.destination_path[1]].content, BodySize)

(* C15, as amended: two invocations running at once on one cache directory *)
(* take no lock: both may find the cache file and the destination absent,  *)
(* both send the same requests and both write the same destination; each   *)
(* write puts its data at the start of the file, so that after a           *)
(* successful write the file holds the writer's data (followed by whatever *)
(* a longer, earlier write left beyond them).  An invocation launches the  *)
(* binary when a file exists at the destination and has been made          *)
(* executable; the file may be empty or partial at that moment, another    *)
(* invocation having opened it for writing.                                *)
C15_RaceOutcome ==
    /\ [](\A p \in Procs :
            LET me == proc[p]
            IN  /\ me.heads <= 1
                /\ me.gets <= 1
                /\ me.pc \in {"spawn", "done"} =>
                       /\ me.destination_path[1] \in DOMAIN bin
                       /\ bin[me.destination_path[1]].exec)
    /\ [][\A p \in Procs :
            LET me == proc[p]
                path == me.destination_path[1]
            IN  /\ (me.pc = "write" /\ proc'[p].pc = "chmod") =>
                     /\ SubSeq(bin'[path].content, 1, Len(JoinBlocks(me.data_blocks)))
                            = JoinBlocks(me.data_blocks)
                     /\ Bytes(bin[path].content) <= me.total =>
                            bin'[path].content = JoinBlocks(me.data_blocks)
                     /\ \A q \in DOMAIN bin \ {path} : bin'[q] = bin[q]
                /\ (me.pc = "cache_write" /\ proc'[p].pc = "makedirs_bin") =>
                     cache'[1].content = me.latest_version[1]
         ]_vars

\* both invocations found the cache file and the destination absent, both
\* sent the HEAD and the GET, both opened the destination, and the second
\* has just written over what the first had written
C15_Witness ==
    /\ \A p \in Procs : proc[p].heads = 1 /\ proc[p].gets = 1 /\ ~proc[p].found
    /\ proc[1].destination_path = proc[2].destination_path
    /\ proc[1].pc = "done"
    /\ proc[2].pc = "chmod"
    /\ CompleteArtifact(proc[2])

\* C15 as the specification states it: in every interleaving the binary
\* is launched only when the file at the destination is a complete artifact
C15_Original ==
    [][\A p \in Procs :
        (proc[p].pc = "spawn" /\ proc'[p].pc = "done") => CompleteArtifact(proc[p])
     ]_vars

----------------------------------------------------------------------------
\* the stage of main a position belongs to: 1 version selection, 2
\* latest-version resolution, 3 artifact location, 4 download, 5 launch
Stage(pc) ==
    CASE pc = "makedirs" -> 0
      [] pc = "decide" -> 1
      [] pc \in {"resolve", "head", "cache_open", "cache_write"} -> 2
      [] pc \in {"makedirs_bin", "filename"} -> 3
      [] pc \in {"exists", "urlopen", "read", "open", "write", "chmod"} -> 4
      [] pc = "spawn" -> 5
      [] OTHER -> 6

(* C16: within one run the stages come in the order selection, resolution, *)
(* location, download, launch, none begun before the one before it has     *)
(* returned and none entered twice; the resolver goes to the cache file    *)
(* and the network only for "latest"; the launcher is invoked at most      *)
(* once, after the downloader has returned and with a file at the path,    *)
(* and never in a run in which a stage has failed.                         *)
C16_StageOrder ==
    /\ [](\A p \in SeqProcs :
            LET me == proc[p]
            IN  /\ me.pc \in {"head", "cache_open", "cache_write"} => me.version = Some(LATEST)
                /\ me.pc \in {"spawn", "done"} =>
                       /\ me.destination_path # None
                       /\ me.destination_path[1] \in DOMAIN bin
                /\ me.launched # None <=> me.pc = "done"
                /\ me.pc \in {"failed", "killed"} =>
                       me.launched = None /\ me.returned = None)
    /\ [][\A p \in SeqProcs :
            LET me == proc[p]
                next == proc'[p]
            IN  /\ (me.pc \notin Terminal /\ next.pc \notin {"failed", "killed"}) =>
                     /\ Stage(next.pc) \in {Stage(me.pc), Stage(me.pc) + 1}
                     /\ (me.pc = "decide" /\ next.pc # "decide") => next.version # None
                     /\ (Stage(me.pc) = 2 /\ Stage(next.pc) = 3) => next.version # None
                     /\ (Stage(me.pc) = 3 /\ Stage(next.pc) = 4) => next.destination_path # None
                     /\ next.pc = "spawn" => me.pc \in {"chmod", "spawn"}
                /\ me.pc \in Terminal => next.pc \in {me.pc, "makedirs"}
                /\ me.launched # None => (next.launched = me.launched \/ next.pc = "makedirs")
         ]_vars

\* a run went through every stage: it resolved "latest" on the network,
\* downloaded the file and launched it
C16_Witness ==
    \E p \in SeqProcs :
        /\ proc[p].pc = "done"
        /\ proc[p].heads = 1
        /\ proc[p].gets = 1
        /\ proc[p].launched # None
        /\ proc[p].returned = Some(0)

----------------------------------------------------------------------------
(* C17, as the specification states it: the progress ratio decides         *)
(* nothing.  Whatever Content-Length the server reports, 0 included, a     *)
(* turn of the loop fails only when the read of the block fails;           *)
(* otherwise the block is kept and the loop goes on, or ends with the      *)
(* empty block, as it would with no ratio computed.                        *)
C17_Original ==
    [][\A p \in SeqProcs :
        LET me == proc[p]
            next == proc'[p]
        IN  (me.pc = "read" /\ next # me /\ next.pc # "killed") =>
                \/ next.pc = "failed" /\ next.err = "ConnectionError"
                \/ /\ next.pc \in {"read", "open"}
                   /\ Len(next.data_blocks) = Len(me.data_blocks) + 1
     ]_vars

----------------------------------------------------------------------------
(* C18: the staleness check takes the distance between the clock and the   *)
(* cache file's modification time in either direction.  A file modified    *)
(* less than 3600 seconds after the current clock (the clock was set back) *)
(* is a hit: no request is sent, and the file's contents, when it can be   *)
(* read, are returned trimmed.  A file modified 3600 seconds or more       *)
(* before or after the current clock is a miss: the resolver goes on to    *)
(* the request to the latest-release endpoint.                             *)
C18_AbsoluteStaleness ==
    [][\A p \in SeqProcs :
        LET me == proc[p]
            next == proc'[p]
        IN  /\ (ResolveStep(p) /\ me.version = Some(LATEST) /\ cache # None) =>
                 /\ (clock < cache[1].mtime /\ cache[1].mtime - clock < 3600) =>
                        /\ next.pc # "head"
                        /\ next.heads = me.heads
                        /\ cache' = cache
                        /\ cache[1].readable =>
                               /\ next.pc = "makedirs_bin"
                               /\ next.version # None
                               /\ IsTrimOf(next.version[1], cache[1].content)
                 /\ (clock - cache[1].mtime >= 3600 \/ cache[1].mtime - clock >= 3600) =>
                        next.pc = "head"
            /\ (me.pc = "head" /\ next.pc \notin {"head", "killed"}) =>
                 next.heads = me.heads + 1
     ]_vars

\* the resolver met a cache file modified an hour after the current clock
\* and goes to the network
C18_Witness ==
    \E p \in SeqProcs :
        /\ proc[p].pc = "head"
        /\ proc[p].heads = 0
        /\ cache # None
        /\ cache[1].mtime - clock >= 3600

----------------------------------------------------------------------------
\* what of the cache file the trust in it rests on
Written(c) == IF c = None THEN None ELSE Some([content |-> c[1].content, mtime |-> c[1].mtime])

(* C19: latest_bazel is written by a run that has had its answer from the  *)
(* latest-release endpoint, and by nothing else: a cache hit, a run with   *)
(* an explicit version, a failed request, the download and the launch      *)
(* leave its contents and its modification time as they are, and nothing   *)
(* removes it.  So a hit does not renew the file, and a hit happens only   *)
(* less than 3600 seconds after the write of the resolution that the file  *)
(* is from.                                                                *)
C19_CacheWrittenOnResolution ==
    /\ [](\A p \in SeqProcs :
            proc[p].pc \in {"cache_open", "cache_write"} =>
                /\ proc[p].heads = 1
                /\ proc[p].latest_version # None
                /\ proc[p].latest_version[1] \in ServedVersions)
    /\ [][/\ cache # None => cache' # None
          /\ Written(cache') # Written(cache) =>
                \E p \in SeqProcs :
                    /\ proc[p].pc \in {"cache_open", "cache_write"}
                    /\ proc'[p].pc \in {"cache_write", "makedirs_bin", "failed"}
                    /\ cache'[1].mtime = clock
          /\ \A p \in SeqProcs :
                LET me == proc[p]
                    next == proc'[p]
                IN  /\ (me.pc = "cache_write" /\ next.pc = "makedirs_bin") =>
                         /\ cache'[1].content = me.latest_version[1]
                         /\ cache'[1].mtime = clock
                    /\ (ResolveStep(p) /\ me.version = Some(LATEST)
                            /\ next.pc = "makedirs_bin") =>
                         /\ cache # None
                         /\ Written(cache') = Written(cache)
                         /\ clock - cache[1].mtime < 3600
                         /\ next.version = Some(Strip(cache[1].content))
         ]_vars

\* a second run took the version from the cache file 3599 seconds after
\* it was written, and the file still bears the time of the write
C19_Witness ==
    \E p \in SeqProcs :
        /\ runs = 2
        /\ proc[p].pc = "makedirs_bin"
        /\ proc[p].via = "fallback"
        /\ proc[p].heads = 0
        /\ cache # None
        /\ cache[1].mtime = 0
        /\ clock = 3599
        /\ proc[p].version = Some(cache[1].content)
        /\ cache[1].content \in ServedVersions

----------------------------------------------------------------------------
(* C20, as the specification states it: when download_bazel_into_directory *)
(* has written the file and returns, the file has as many bytes as the     *)
(* Content-Length of the response said; a stream that ends before that     *)
(* many bytes have arrived leaves no file for a later run to find and      *)
(* launch.                                                                 *)
C20_Original ==
    \A p \in SeqProcs :
        LET me == proc[p]
        IN  /\ (me.pc \in {"chmod", "spawn", "done"} /\ me.gets = 1) =>
                   Bytes(bin[me.destination_path[1]].content) = me.fileTotalbytes
            /\ (me.pc \in {"chmod", "spawn", "done"} /\ me.found) =>
                   Bytes(bin[me.destination_path[1]].content) = BodySize

====
